---- MODULE Spec2Model ----
(***************************************************************************)
(* Model of audio_topic_model/topic_model.py: generate_topic_key and the   *)
(* three-phase graph write of create_topic_graph against a Neo4j store.    *)
(*                                                                         *)
(* The store is the labelled property graph the Cypher statements act on.  *)
(* Nodes and edges are kept with a multiplicity, so that "MERGE creates    *)
(* nothing when the pattern already matches" is something the model        *)
(* computes rather than assumes.  Weights are written in tenths (8 is 0.8).*)
(***************************************************************************)
EXTENDS Naturals, Sequences, FiniteSets, TLC

VARIABLES
    docs,           \* create_topic_graph argument: the document strings
    topics,         \* create_topic_graph argument: the topic id of each document
    topic_model,    \* create_topic_graph argument: get_topic, topic id -> <<[word, weight]>>
    pc,             \* position of the current call of create_topic_graph
    kwi,            \* number of keyword statements already issued by the loop of lines 71-86
    sessions,       \* number of driver sessions currently open
    issued,         \* the statements issued in the current call, each with its result
    ack,            \* what the store did with the most recent statement
    store,          \* the graph held by the Neo4j store
    lastStrength,   \* history: the weight of the latest keyword statement per (word, topic key)
    baseline,       \* history: <<the store as it was when the same call was started again>>
    runs,           \* number of calls of create_topic_graph started so far
    resolverIn,     \* generate_topic_key: the two keyword sequences handed to it
    resolverOut     \* generate_topic_key: the two digests returned

vars == <<docs, topics, topic_model, pc, kwi, sessions, issued, ack, store,
          lastStrength, baseline, runs, resolverIn, resolverOut>>

runVars == <<docs, topics, topic_model, pc, kwi, sessions, issued, baseline, runs>>
resolverVars == <<resolverIn, resolverOut>>

(***************************************************************************)
(* Bounds and input sets                                                   *)
(***************************************************************************)
MaxDocs == 2        \* longest docs / topics sequence handed to a call
MaxRuns == 3        \* calls of create_topic_graph in one behaviour
MaxKw == 2          \* longest keyword sequence handed to generate_topic_key

DocStrings == {"le chat mange"}
TopicIds == {0, 1}
Words == {"a", "b", "a_b"}
Weights == {5, 8}

KW(w, p) == [word |-> w, weight |-> p]

\* The fitted models a call may be handed: two topics with distinct keys, one
\* of them repeating a word; two topic ids with the same word and other weights;
\* two topic ids whose word lists differ and join to the same string.
TopicModels ==
    { (0 :> <<KW("a", 8)>>)   @@ (1 :> <<KW("b", 8), KW("b", 5)>>),
      (0 :> <<KW("a", 8)>>)   @@ (1 :> <<KW("a", 5)>>),
      (0 :> <<KW("b_b", 5)>>) @@ (1 :> <<KW("b", 5), KW("b", 8)>>) }

SeqsUpTo(S, n) == UNION { [1..k -> S] : k \in 0..n }

KeywordLists == SeqsUpTo([word : Words, weight : Weights], MaxKw)

(***************************************************************************)
(* generate_topic_key                                                      *)
(***************************************************************************)
RECURSIVE Join(_, _)
\* str.join: the items with sep between consecutive ones
Join(items, sep) ==
    IF items = <<>> THEN ""
    ELSE IF Len(items) = 1 THEN items[1]
    ELSE items[1] \o sep \o Join(Tail(items), sep)

\* [kw for kw, _ in keywords]
WordsOf(keywords) == [i \in 1..Len(keywords) |-> keywords[i].word]

\* hashlib.md5(s.encode()).hexdigest(), taken as collision-free: an injective tag
md5_hexdigest(s) == "md5(" \o s \o ")"

generate_topic_key(keywords) == md5_hexdigest(Join(WordsOf(keywords), "_"))

(***************************************************************************)
(* The store and the three Cypher statements                               *)
(***************************************************************************)
Empty == <<>>

EmptyStore ==
    [ topic      |-> Empty,     \* Topic nodes: key -> multiplicity
      keywords   |-> Empty,     \* Topic.keywords: key -> string
      doc        |-> Empty,     \* Document nodes: content -> multiplicity
      kw         |-> Empty,     \* Keyword nodes: word -> multiplicity
      belongs    |-> Empty,     \* BELONGS_TO edges: <<content, key>> -> multiplicity
      represents |-> Empty,     \* REPRESENTS edges: <<word, key>> -> multiplicity
      strength   |-> Empty ]    \* REPRESENTS.strength: <<word, key>> -> weight

\* SET: the attribute of every matched element becomes v
SetAttr(f, k, v) == (k :> v) @@ f

\* CREATE in place of MERGE: one more element with identity k, matched or not
Create(f, k) == IF k \in DOMAIN f THEN [f EXCEPT ![k] = @ + 1] ELSE (k :> 1) @@ f

\* MERGE: match the pattern, create it only when nothing matches
Merge(f, k) == IF k \in DOMAIN f THEN f ELSE (k :> 1) @@ f

\* lines 42-44, one row of UNWIND $topics
TopicRow(s, rec) ==
    [s EXCEPT !.topic = Merge(@, rec.key),
              !.keywords = SetAttr(@, rec.key, rec.keywords)]

\* lines 61-65, one row of UNWIND $docs: a row whose MATCH finds no Topic is dropped
DocumentRow(s, rec) ==
    LET s1 == [s EXCEPT !.doc = Merge(@, rec.content)]
    IN  IF rec.topic_key \in DOMAIN s1.topic
        THEN [s1 EXCEPT !.belongs = Merge(@, <<rec.content, rec.topic_key>>)]
        ELSE s1

\* a keyword statement that sets strength only on the edge it creates (ON CREATE SET)
KeywordRowOnCreate(s, rec) ==
    LET s1 == [s EXCEPT !.kw = Merge(@, rec.keyword)]
        e  == <<rec.keyword, rec.topic_key>>
    IN  IF rec.topic_key \in DOMAIN s1.topic
        THEN [s1 EXCEPT !.represents = Merge(@, e),
                        !.strength = IF e \in DOMAIN @ THEN @ ELSE SetAttr(@, e, rec.strength)]
        ELSE s1

\* lines 77-81
KeywordRow(s, rec) ==
    LET s1 == [s EXCEPT !.kw = Merge(@, rec.keyword)]
        e  == <<rec.keyword, rec.topic_key>>
    IN  IF rec.topic_key \in DOMAIN s1.topic
        THEN [s1 EXCEPT !.represents = Merge(@, e),
                        !.strength = SetAttr(@, e, rec.strength)]
        ELSE s1

RECURSIVE TopicStatement(_, _)
TopicStatement(s, batch) ==
    IF batch = <<>> THEN s
    ELSE TopicStatement(TopicRow(s, Head(batch)), Tail(batch))

RECURSIVE DocumentStatement(_, _)
DocumentStatement(s, batch) ==
    IF batch = <<>> THEN s
    ELSE DocumentStatement(DocumentRow(s, Head(batch)), Tail(batch))

\* the topic keys a statement's MATCH looks for and does not find in s
Unmatched(s, keys) == { k \in keys : k \notin DOMAIN s.topic }

Range(f) == { f[i] : i \in DOMAIN f }

Min(a, b) == IF a <= b THEN a ELSE b

(***************************************************************************)
(* create_topic_graph: what it computes from its arguments                 *)
(***************************************************************************)
RECURSIVE Ascending(_)
\* iteration over a set of small non-negative ints: ascending in CPython, and
\* the same order every time the same set is iterated
Ascending(S) ==
    IF S = {} THEN <<>>
    ELSE LET m == CHOOSE x \in S : \A y \in S : x <= y
         IN  <<m>> \o Ascending(S \ {m})

\* the ids taken from the list itself, one per document, not from set(topics)
topic_ids_list(tps) == tps

\* line 28, in iteration order
topic_ids(tps) == Ascending(Range(tps))

\* lines 29-37
topic_queries(tps, tm) ==
    LET ids == topic_ids(tps)
    IN  [i \in 1..Len(ids) |->
            [key      |-> generate_topic_key(tm[ids[i]]),
             keywords |-> Join(WordsOf(tm[ids[i]]), ", ")]]

\* document records keyed by a digest of the ", "-joined words
doc_queries_other_join(ds, tps, tm) ==
    [i \in 1..Min(Len(ds), Len(tps)) |->
        [content   |-> ds[i],
         topic_key |-> md5_hexdigest(Join(WordsOf(tm[tps[i]]), ", "))]]

\* lines 50-56: zip stops at the shorter of docs and topics
doc_queries(ds, tps, tm) ==
    [i \in 1..Min(Len(ds), Len(tps)) |->
        [content   |-> ds[i],
         topic_key |-> generate_topic_key(tm[tps[i]])]]

RECURSIVE KeywordRows(_, _)
\* lines 71-74: the parameters of the keyword statements, in loop order
KeywordRows(ids, tm) ==
    IF ids = <<>> THEN <<>>
    ELSE [j \in 1..Len(tm[Head(ids)]) |->
            [keyword   |-> tm[Head(ids)][j].word,
             topic_key |-> generate_topic_key(tm[Head(ids)]),
             strength  |-> tm[Head(ids)][j].weight]]
         \o KeywordRows(Tail(ids), tm)

keyword_queries(tps, tm) == KeywordRows(topic_ids(tps), tm)


(***************************************************************************)
(* session.run: a statement reaches the store and is acknowledged          *)
(***************************************************************************)
NoBaseline == <<>>
NoAck == [stmt |-> "none", rows |-> <<>>, unmatched |-> {}, error |-> "none"]

\* None of the statements checks what its MATCH found: the store acknowledges
\* the statement without an error whether or not a row was dropped.
Acked(kind, rows, keys) ==
    [stmt |-> kind, rows |-> rows, unmatched |-> Unmatched(store, keys), error |-> "none"]

\* lines 40-47
SendTopics(batch) ==
    /\ store' = TopicStatement(store, batch)
    /\ ack' = Acked("topics", batch, {})
    /\ UNCHANGED lastStrength

\* lines 59-68
SendDocuments(batch) ==
    /\ store' = DocumentStatement(store, batch)
    /\ ack' = Acked("documents", batch, { batch[i].topic_key : i \in DOMAIN batch })
    /\ UNCHANGED lastStrength

\* lines 75-86
SendKeyword(rec) ==
    /\ store' = KeywordRow(store, rec)
    /\ ack' = Acked("keywords", <<rec>>, {rec.topic_key})
    /\ lastStrength' = SetAttr(lastStrength, <<rec.keyword, rec.topic_key>>, rec.strength)

(***************************************************************************)
(* create_topic_graph as a process                                         *)
(***************************************************************************)
Init ==
    /\ docs = <<>> /\ topics = <<>>
    /\ topic_model = CHOOSE tm \in TopicModels : TRUE
    /\ pc = "idle" /\ kwi = 0 /\ sessions = 0 /\ issued = <<>>
    /\ ack = NoAck
    /\ store = EmptyStore
    /\ lastStrength = Empty
    /\ baseline = NoBaseline
    /\ runs = 0
    /\ resolverIn = <<>> /\ resolverOut = <<>>

\* line 26: the session is acquired, the call starts
Enter ==
    /\ pc' = "topics" /\ kwi' = 0 /\ sessions' = sessions + 1 /\ issued' = <<>>
    /\ runs' = runs + 1

\* a call with fresh arguments
Call ==
    /\ pc \in {"idle", "done", "failed"}
    /\ runs < MaxRuns
    /\ docs' \in SeqsUpTo(DocStrings, MaxDocs)
    /\ topics' \in SeqsUpTo(TopicIds, MaxDocs)
    /\ topic_model' \in TopicModels
    /\ baseline' = NoBaseline
    /\ Enter
    /\ UNCHANGED <<ack, store, lastStrength, resolverVars>>

\* the same call once more, after it returned
CallAgain ==
    /\ pc = "done"
    /\ runs < MaxRuns
    /\ baseline' = <<store>>
    /\ Enter
    /\ UNCHANGED <<docs, topics, topic_model, ack, store, lastStrength, resolverVars>>

\* lines 28-47
RunTopics ==
    /\ pc = "topics"
    /\ SendTopics(topic_queries(topics, topic_model))
    /\ issued' = Append(issued, <<"topics", "ok">>)
    /\ pc' = "documents"
    /\ UNCHANGED <<docs, topics, topic_model, kwi, sessions, baseline, runs, resolverVars>>

\* lines 49-68
RunDocuments ==
    /\ pc = "documents"
    /\ SendDocuments(doc_queries(docs, topics, topic_model))
    /\ issued' = Append(issued, <<"documents", "ok">>)
    /\ pc' = "keywords"
    /\ UNCHANGED <<docs, topics, topic_model, kwi, sessions, baseline, runs, resolverVars>>

\* lines 71-86, one pass of the inner loop
RunKeyword ==
    /\ pc = "keywords"
    /\ kwi < Len(keyword_queries(topics, topic_model))
    /\ SendKeyword(keyword_queries(topics, topic_model)[kwi + 1])
    /\ issued' = Append(issued, <<"keywords", "ok">>)
    /\ kwi' = kwi + 1
    /\ UNCHANGED <<docs, topics, topic_model, pc, sessions, baseline, runs, resolverVars>>

\* the loops are exhausted: the with block is left and the call returns
Return ==
    /\ pc = "keywords"
    /\ kwi = Len(keyword_queries(topics, topic_model))
    /\ pc' = "done"
    /\ sessions' = sessions - 1
    /\ UNCHANGED <<docs, topics, topic_model, kwi, issued, ack, store, lastStrength,
                   baseline, runs, resolverVars>>

\* a statement is pending: the next thing the call does is a session.run
StatementPending ==
    \/ pc \in {"topics", "documents"}
    \/ pc = "keywords" /\ kwi < Len(keyword_queries(topics, topic_model))

\* session.run raises (the store refuses the statement, the connection drops)
\* and the statement changes nothing; the call goes on at pcAfter with
\* sessionsAfter sessions open
RaiseTo(pcAfter, sessionsAfter) ==
    /\ StatementPending
    /\ issued' = Append(issued, <<pc, "raised">>)
    /\ ack' = [stmt |-> pc, rows |-> <<>>, unmatched |-> {}, error |-> "StoreError"]
    /\ pc' = pcAfter
    /\ sessions' = sessionsAfter
    /\ UNCHANGED <<docs, topics, topic_model, kwi, store, lastStrength, baseline,
                   runs, resolverVars>>

\* the exception caught and dropped around the statement: the call goes on
RaiseSwallowed ==
    RaiseTo(IF pc = "topics" THEN "documents" ELSE "keywords", sessions)

\* the session taken without a with block: the exception leaves it open
RaiseLeak == RaiseTo("failed", sessions)

\* nothing in lines 26-86 catches: the exception leaves the with block, whose
\* exit closes the session, and ends the call
Raise == RaiseTo("failed", sessions - 1)

Next == Call \/ CallAgain \/ RunTopics \/ RunDocuments \/ RunKeyword \/ Return \/ Raise

Spec == Init /\ [][Next]_vars

(***************************************************************************)
(* The statements on their own: any batch against any store they built     *)
(***************************************************************************)
TopicRecords ==
    { topic_queries(<<id>>, tm)[1] : id \in TopicIds, tm \in TopicModels }

DocumentRecords ==
    { [content |-> d, topic_key |-> r.key] : d \in DocStrings, r \in TopicRecords }

KeywordRecords ==
    UNION { Range(keyword_queries(<<id>>, tm)) : id \in TopicIds, tm \in TopicModels }

WriteTopics ==
    /\ \E batch \in SeqsUpTo(TopicRecords, MaxDocs) : SendTopics(batch)
    /\ UNCHANGED <<runVars, resolverVars>>

WriteDocuments ==
    /\ \E batch \in SeqsUpTo(DocumentRecords, MaxDocs) : SendDocuments(batch)
    /\ UNCHANGED <<runVars, resolverVars>>

WriteKeywordEdge ==
    /\ \E rec \in KeywordRecords : SendKeyword(rec)
    /\ UNCHANGED <<runVars, resolverVars>>

NextWriter == WriteTopics \/ WriteDocuments \/ WriteKeywordEdge

SpecWriter == Init /\ [][NextWriter]_vars

(***************************************************************************)
(* generate_topic_key on its own: two keyword sequences and their keys     *)
(***************************************************************************)
InitResolver ==
    /\ docs = <<>> /\ topics = <<>>
    /\ topic_model = CHOOSE tm \in TopicModels : TRUE
    /\ pc = "idle" /\ kwi = 0 /\ sessions = 0 /\ issued = <<>>
    /\ ack = NoAck
    /\ store = EmptyStore
    /\ lastStrength = Empty
    /\ baseline = NoBaseline
    /\ runs = 0
    /\ resolverIn \in KeywordLists \X KeywordLists
    /\ resolverOut = <<>>

Resolve ==
    /\ resolverOut = <<>>
    /\ resolverOut' = <<generate_topic_key(resolverIn[1]), generate_topic_key(resolverIn[2])>>
    /\ UNCHANGED <<runVars, ack, store, lastStrength, resolverIn>>

NextResolver == Resolve

SpecResolver == InitResolver /\ [][NextResolver]_vars

(***************************************************************************)
(* Properties                                                              *)
(***************************************************************************)
TopicKey(id) == generate_topic_key(topic_model[id])

\* every node and every edge of s is there once
Once(f) == \A k \in DOMAIN f : f[k] = 1

NoDuplicates(s) ==
    Once(s.topic) /\ Once(s.doc) /\ Once(s.kw) /\ Once(s.belongs) /\ Once(s.represents)

\* C1: a call of create_topic_graph repeated with the same docs, topics and
\* keyword lists, whatever the store held before the first of the two, leaves
\* the store exactly as the first left it: the same nodes and edges, each
\* once, and the same keywords and strength values.
C1_Idempotent ==
    (pc = "done" /\ baseline # NoBaseline) => (store = baseline[1] /\ NoDuplicates(store))

\* the second of two equal calls has returned, on a store an earlier call with
\* other arguments had already written to, and the graph holds edges of both kinds
C1_Witness ==
    /\ pc = "done" /\ baseline # NoBaseline /\ runs = 3
    /\ Len(issued) > 2
    /\ store.belongs # Empty /\ store.represents # Empty
    /\ Cardinality(DOMAIN store.topic) = 2

\* C2: a document statement with a record whose topic_key matches no Topic
\* node fails with a ReferentialIntegrityError and leaves no Document node
\* without a BELONGS_TO edge.
C2_MissingTopicRejected ==
    (ack.stmt = "documents" /\ ack.unmatched # {}) =>
        /\ ack.error = "ReferentialIntegrityError"
        /\ \A d \in DOMAIN store.doc : \E e \in DOMAIN store.belongs : e[1] = d

\* C3: each (word, topic key) pair has at most one REPRESENTS edge, and its
\* strength is the weight of the latest keyword statement for that pair.
C3_RepresentsLatest ==
    \A e \in DOMAIN store.represents :
        /\ store.represents[e] = 1
        /\ e \in DOMAIN lastStrength
        /\ store.strength[e] = lastStrength[e]

\* within one call the pair (a, T) was written with 0.8 and then with 0.5,
\* and the one edge carries 0.5
C3_Witness ==
    /\ pc = "keywords" /\ kwi = 2
    /\ LET q == keyword_queries(topics, topic_model)
       IN  /\ Len(q) = 2
           /\ q[1].keyword = q[2].keyword /\ q[1].topic_key = q[2].topic_key
           /\ q[1].strength = 8 /\ q[2].strength = 5
           /\ store.represents[<<q[2].keyword, q[2].topic_key>>] = 1
           /\ store.strength[<<q[2].keyword, q[2].topic_key>>] = 5

\* C4: after a call on an empty store every Document node has exactly one
\* BELONGS_TO edge, to the topic of the last occurrence of its content in docs.
C4_OneTopicPerDocument ==
    (pc = "done" /\ runs = 1 /\ Len(docs) = Len(topics)) =>
        \A d \in DOMAIN store.doc :
            /\ Cardinality({ e \in DOMAIN store.belongs : e[1] = d }) = 1
            /\ \A i \in DOMAIN docs :
                  (docs[i] = d /\ \A j \in DOMAIN docs : j > i => docs[j] # d)
                      => <<d, TopicKey(topics[i])>> \in DOMAIN store.belongs

\* C5: a call whose docs and topics differ in length is rejected before any
\* statement is issued: nothing is sent to the store and the call does not return normally.
C5_MismatchRejected ==
    (pc # "idle" /\ Len(docs) # Len(topics)) => (issued = <<>> /\ pc # "done")

\* C6: the statements of one call are issued in the order topic batch,
\* document batch, keyword statements, one at a time; a call that returns has
\* issued all of them, and nothing is issued after a statement raised.
C6_StatementOrder ==
    /\ \A i \in DOMAIN issued :
          /\ issued[i][1] = (IF i = 1 THEN "topics" ELSE IF i = 2 THEN "documents" ELSE "keywords")
          /\ issued[i][2] = "raised" => (i = Len(issued) /\ pc = "failed")
    /\ pc = "documents" => Len(issued) = 1
    /\ pc = "keywords" => Len(issued) = 2 + kwi
    /\ pc = "done" => Len(issued) = 2 + Len(keyword_queries(topics, topic_model))
    /\ pc = "failed" => (issued # <<>> /\ issued[Len(issued)][2] = "raised")

\* a call that ended when a keyword statement raised, after the topic batch,
\* the document batch and one keyword statement had been acknowledged
C6_Witness ==
    /\ pc = "failed" /\ Len(issued) = 4
    /\ issued[3] = <<"keywords", "ok">> /\ issued[4] = <<"keywords", "raised">>

\* C7: two keyword sequences whose word lists differ get different keys.
C7_KeyInjective ==
    (resolverOut # <<>> /\ WordsOf(resolverIn[1]) # WordsOf(resolverIn[2]))
        => resolverOut[1] # resolverOut[2]

\* C8: the session a call acquires is closed when the call returns and when
\* a statement raises; it is open exactly while the call is running.
C8_SessionReleased ==
    /\ pc \in {"idle", "done", "failed"} => sessions = 0
    /\ pc \in {"topics", "documents", "keywords"} => sessions = 1

\* a call ended by a raising document statement, its session closed
C8_Witness ==
    /\ pc = "failed" /\ sessions = 0
    /\ Len(issued) = 2 /\ issued[2] = <<"documents", "raised">>

\* C9: no two records of the topic batch carry the same key.
C9_BatchKeysDistinct ==
    ack.stmt = "topics" =>
        \A i, j \in DOMAIN ack.rows : i # j => ack.rows[i].key # ack.rows[j].key

\* C9, amended: the topic batch holds one record per distinct topic id of
\* topics, with the key and the keyword string of that id; the statement
\* leaves one Topic node per key of the batch.
C9_BatchOnePerId ==
    (ack.stmt = "topics" /\ ack.error = "none") =>
        /\ Len(ack.rows) = Cardinality(Range(topics))
        /\ \A id \in Range(topics) : \E i \in DOMAIN ack.rows :
              ack.rows[i] = [key |-> TopicKey(id),
                             keywords |-> Join(WordsOf(topic_model[id]), ", ")]
        /\ \A i \in DOMAIN ack.rows :
              ack.rows[i].key \in DOMAIN store.topic /\ store.topic[ack.rows[i].key] = 1

\* a batch of two records with one key, from two ids with the same words
C9_Witness ==
    /\ ack.stmt = "topics" /\ Len(ack.rows) = 2
    /\ ack.rows[1].key = ack.rows[2].key
    /\ pc = "documents"

\* C10: in a call with docs and topics of one length every topic_key of a
\* document record or a keyword statement is the key of a record of the topic
\* batch, and no MATCH comes up empty; when the call has returned every
\* document has its node and the edge to its topic, and every keyword of every
\* assigned topic has its node and the edge to that topic.
C10_KeysResolved ==
    (pc # "idle" /\ Len(docs) = Len(topics)) =>
        LET tq == topic_queries(topics, topic_model)
            dq == doc_queries(docs, topics, topic_model)
            kq == keyword_queries(topics, topic_model)
            keys == { tq[i].key : i \in DOMAIN tq }
        IN  /\ \A i \in DOMAIN dq : dq[i].topic_key \in keys
            /\ \A i \in DOMAIN kq : kq[i].topic_key \in keys
            /\ ack.unmatched = {}
            /\ pc = "done" =>
                  /\ \A i \in DOMAIN docs :
                        /\ docs[i] \in DOMAIN store.doc
                        /\ <<docs[i], TopicKey(topics[i])>> \in DOMAIN store.belongs
                  /\ \A id \in Range(topics) : \A j \in DOMAIN topic_model[id] :
                        /\ topic_model[id][j].word \in DOMAIN store.kw
                        /\ <<topic_model[id][j].word, TopicKey(id)>> \in DOMAIN store.represents

\* a call with two documents on two topics with different keys has returned
C10_Witness ==
    /\ pc = "done" /\ Len(docs) = 2 /\ Len(topics) = 2
    /\ TopicKey(topics[1]) # TopicKey(topics[2])
    /\ Cardinality(DOMAIN store.belongs) = 2

====
